---- MODULE Spec2Model ----
(***************************************************************************)
(* Dense matrix-vector multiplication benchmarks of COP5522-HW1.           *)
(*                                                                         *)
(* Eight programs are modelled: src/Mv.c, src/hw1/Mv.cpp, src/hw1/hw1.cpp, *)
(* src/proj1/Mv.cpp, src/proj1/optimized.cpp, src/proj1/proj1/unroll.cpp,  *)
(* src/proj1/interchange.cpp and src/proj1/avx2.cpp.  Each run is a state  *)
(* machine: argument parsing, allocation, generator, timed kernel call,    *)
(* report, exit.  Kernels are stepped one loop iteration at a time.        *)
(*                                                                         *)
(* A floating point sum is kept as the sequence of the products that were  *)
(* added, in the order the code adds them: a term <<ai, bk>> stands for    *)
(* A[ai] * b[bk].  Element values are exact rationals <<num, den>>.        *)
(***************************************************************************)
EXTENDS Integers, Sequences, FiniteSets, TLC

\* ------------------------------------------------------------------ bounds
\* Largest matrix dimension explored by the harness and kernel runs.
MaxN == 17

\* ------------------------------------------------------- 32-bit signed int
IntMax == 2147483647
IntMin == (-IntMax) - 1

\* a + b of two ints leaves the range of int.
AddOverflows(a, b) ==
    \/ (a > 0 /\ b > 0 /\ a > IntMax - b)
    \/ (a < 0 /\ b < 0 /\ a < IntMin - b)

\* a + b reduced modulo 2^32 into [IntMin, IntMax], as two's complement
\* hardware produces it.
AddWrap32(a, b) ==
    IF a > 0 /\ b > 0 /\ a > IntMax - b THEN (a + IntMin) + (b + IntMin)
    ELSE IF a < 0 /\ b < 0 /\ a < IntMin - b THEN (a - IntMin) + (b - IntMin)
    ELSE a + b

\* a * b of two non-negative ints leaves the range of int.
MulOverflows(a, b) == a > 0 /\ b > 0 /\ a > IntMax \div b

\* The low 32 bits of a * b for 0 <= a, b <= IntMax, read as a signed int.
\* The product is formed from 16-bit and 8-bit limbs so that every
\* intermediate value is itself within [IntMin, IntMax].
MulWrapLimbs(a, b) ==
    LET a1 == a \div 65536
        a0 == a % 65536
        b1 == b \div 65536
        b0 == b % 65536
        u  == (a0 \div 256) * b0
        v  == (a0 % 256) * b0
        w  == (u % 256) * 256 + v
        lo == w % 65536
        hi == ((u \div 256) + (w \div 65536)
                 + ((a1 * b0) % 65536) + ((a0 * b1) % 65536)) % 65536
    IN  IF hi >= 32768 THEN (hi - 65536) * 65536 + lo ELSE hi * 65536 + lo

\* a * b reduced modulo 2^32 into [IntMin, IntMax].
MulWrap32(a, b) ==
    IF a >= 0 /\ b >= 0 /\ MulOverflows(a, b) THEN MulWrapLimbs(a, b)
    ELSE a * b

\* The flattened index i * n + k, in int arithmetic.
FlatIndex(i, n, k) == AddWrap32(MulWrap32(i, n), k)

\* ------------------------------------------------------------ command line
Digits == <<"0", "1", "2", "3", "4", "5", "6", "7", "8", "9">>

IsDigit(ch) == \E d \in 1..10 : Digits[d] = ch

DigitVal(ch) == (CHOOSE d \in 1..10 : Digits[d] = ch) - 1

RECURSIVE AtoiDigits(_, _, _)
AtoiDigits(s, p, acc) ==
    IF p > Len(s) \/ ~IsDigit(s[p]) THEN acc
    ELSE AtoiDigits(s, p + 1, acc * 10 + DigitVal(s[p]))

\* atoi: optional sign, then the longest run of decimal digits; 0 when
\* there is none.
Atoi(s) ==
    IF s = <<>> THEN 0
    ELSE IF s[1] = "-" THEN -AtoiDigits(s, 2, 0)
    ELSE IF s[1] = "+" THEN AtoiDigits(s, 2, 0)
    ELSE AtoiDigits(s, 1, 0)

\* Decimal numeral of a natural number, as the user types it.
RECURSIVE Numeral(_)
Numeral(m) ==
    IF m < 10 THEN <<Digits[m + 1]>>
    ELSE Append(Numeral(m \div 10), Digits[(m % 10) + 1])

SelAvx2        == <<"a", "v", "x", "2">>
SelUnroll      == <<"u", "n", "r", "o", "l", "l">>
SelInterchange == <<"i", "n", "t", "e", "r", "c", "h", "a", "n", "g", "e">>
SelBaseline    == <<"b", "a", "s", "e", "l", "i", "n", "e">>
SelOther       == <<"f", "o", "o">>

\* The optimization types print_usage documents.
DocumentedSelectors == {SelBaseline, SelAvx2, SelUnroll, SelInterchange}

\* The optimization types main dispatches to a kernel.
DispatchedSelectors == {SelAvx2, SelUnroll, SelInterchange}

Selectors == DocumentedSelectors \cup {SelOther}

DimArgs == {Numeral(m) : m \in 0..MaxN}
             \cup {<<"-", "5">>, <<"a", "b", "c">>, <<"3", "x">>}

ArgLists == {<<>>} \cup {<<d>> : d \in DimArgs}
              \cup {<<s, d>> : s \in Selectors, d \in DimArgs}
              \cup {<<SelAvx2, <<"4">>, <<"4">>>>}

\* ---------------------------------------------------------------- programs
Programs == {"Mv_c", "hw1_Mv", "hw1", "proj1_Mv", "optimized", "unroll",
             "interchange", "avx2"}

\* Programs that allocate raw buffers through CreateMatrix.
CreateMatrixPrograms == {"Mv_c", "hw1_Mv"}

\* Programs that reject n <= 0 before allocating.
CheckedPrograms == {"proj1_Mv", "optimized", "unroll", "interchange", "avx2"}

\* Programs that report in microseconds with Gflop/s and the sample C[N/2].
SampleReportPrograms == {"Mv_c", "hw1_Mv", "hw1"}

\* The kernel a program runs: its loop shape.
KernelKind(p, sel) ==
    CASE p \in CreateMatrixPrograms -> "interchange"
      [] p = "hw1" /\ sel = SelAvx2 -> "vector"
      [] p = "hw1" /\ sel = SelUnroll -> "unroll"
      [] p = "hw1" /\ sel = SelInterchange -> "interchange"
      [] p = "proj1_Mv" -> "baseline"
      [] p \in {"optimized", "avx2"} -> "vector"
      [] p = "unroll" -> "unroll"
      [] p = "interchange" -> "interchange"
      [] OTHER -> "none"

\* Unroll factor of Mv_mult_unrolled.
UnrollWidth(p) == IF p = "hw1" THEN 4 ELSE 8

\* Lanes per vector register: __m256 holds 8 floats, __m256d 4 doubles.
LaneWidth(p) == IF p = "hw1" THEN 8 ELSE 4

Width(p, kind) == IF kind = "unroll" THEN UnrollWidth(p) ELSE LaneWidth(p)

\* ------------------------------------------------------------------ values
Zero == <<0, 1>>
\* Content of storage that was never written.
Indeterminate == <<0, 0>>
\* The term standing for whatever an accumulator held before the kernel.
Garbage == <<-1, -1>>

\* 1 / (i + j + 2), the matrix generator.
GenA(i, j) == <<1, i + j + 2>>

\* The vector generator: 1/(i+1) in proj1, 1/(i+2) in hw1.
GenB(p, i) == IF p \in CheckedPrograms THEN <<1, i + 1>> ELSE <<1, i + 2>>

RatAdd(x, y) == <<x[1] * y[2] + y[1] * x[2], x[2] * y[2]>>
RatMul(x, y) == <<x[1] * y[1], x[2] * y[2]>>

VARIABLES
    prog,       \* the program that runs
    argv,       \* its arguments, argv[1..argc-1], each a sequence of characters
    pc,         \* position of the run
    n,          \* the parsed dimension
    opt_type,   \* the selected optimization type (hw1.cpp)
    mem,        \* per buffer: "none", "ok" or "null"
    A, b, c,    \* buffer contents; DOMAIN is 0..size-1
    i, j, k,    \* loop counters
    sum,        \* scalar accumulator of the current row
    lanes,      \* vector accumulator of the current row
    mainK,      \* columns the main loop covered in the current row
    remK,       \* columns the remainder loop covered in the current row
    iters,      \* <<main loop iterations, remainder iterations>> of the row
    written,    \* indices of c the kernel has assigned
    reads,      \* indices of c the report has read
    events,     \* order of generator, timer, kernel and report events
    out,        \* standard output
    err,        \* error stream
    status,     \* exit status; -1 while running
    ub,         \* kinds of undefined behaviour that have happened
    arith,      \* result of the last size or index computation
    ran         \* kernels that were entered

vars == <<prog, argv, pc, n, opt_type, mem, A, b, c, i, j, k, sum, lanes, mainK,
          remK, iters, written, reads, events, out, err, status, ub, arith, ran>>


\* ----------------------------------------------------------------- helpers
Range(f) == {f[x] : x \in DOMAIN f}

Labels(o) == {o[x][1] : x \in DOMAIN o}

Buf(name) == CASE name = "A" -> A [] name = "B" -> b [] OTHER -> c

\* An access <<buffer, index>> that stays inside an allocated buffer.
Valid(a) == mem[a[1]] = "ok" /\ a[2] \in DOMAIN Buf(a[1])

Bad(acc) == {a \in acc : ~Valid(a)}

Kinds(bad) == {IF mem[a[1]] = "ok" THEN "oob" ELSE "null" : a \in bad}

\* A store through operator[] or a raw pointer; a store outside the buffer
\* leaves the buffer's own elements alone.
Store(f, name, idx, v) ==
    IF Valid(<<name, idx>>) THEN [f EXCEPT ![idx] = v] ELSE f

\* A load; outside the buffer it yields whatever lies there.
Load(name, idx) ==
    IF Valid(<<name, idx>>) THEN Buf(name)[idx] ELSE <<Garbage>>

\* Integer division of C, truncating toward zero.
CDiv(x, y) == IF x >= 0 THEN x \div y ELSE -((-x) \div y)

\* The step continues at next; an invalid access is recorded.
Goes(bad, next) ==
    /\ pc' = next
    /\ status' = status
    /\ ub' = ub \cup Kinds(bad)

\* The invalid access stops the process with a signal.
Crash(bad) ==
    /\ bad # {}
    /\ pc' = "done"
    /\ status' = 139
    /\ ub' = ub \cup Kinds(bad)
    /\ UNCHANGED <<prog, argv, n, opt_type, mem, A, b, c, i, j, k, sum,
                   lanes, mainK, remK, iters, written, reads, events, out,
                   err, arith, ran>>

\* Generator writes are logged once per run of consecutive writes.
Log(e) ==
    IF events # <<>> /\ events[Len(events)] = e THEN events
    ELSE Append(events, e)

\* -------------------------------------------------------------------- Init
Init ==
    /\ prog \in Programs
    /\ argv \in ArgLists
    /\ pc = "start"
    /\ n = 0
    /\ opt_type = <<>>
    /\ mem = [x \in {"A", "B", "C"} |-> "none"]
    /\ A = <<>> /\ b = <<>> /\ c = <<>>
    /\ i = 0 /\ j = 0 /\ k = 0
    /\ sum = <<>>
    /\ lanes = <<>>
    /\ mainK = {} /\ remK = {}
    /\ iters = <<0, 0>>
    /\ written = {} /\ reads = {}
    /\ events = <<>>
    /\ out = <<>> /\ err = <<>>
    /\ status = -1
    /\ ub = {}
    /\ arith = [op |-> "none", val |-> 0]
    /\ ran = {}

\* ------------------------------------------------------- argument handling
\* main of every program up to the first allocation: argc test and atoi.
ParseArgs ==
    /\ pc = "start"
    /\ IF prog = "hw1"
       THEN CASE Len(argv) = 1 ->
                   /\ opt_type' = SelAvx2
                   /\ n' = Atoi(argv[1])
                   /\ pc' = "allocA"
                   /\ UNCHANGED <<err, status>>
              [] Len(argv) = 2 ->
                   /\ opt_type' = argv[1]
                   /\ n' = Atoi(argv[2])
                   /\ pc' = "allocA"
                   /\ UNCHANGED <<err, status>>
              [] OTHER ->
                   /\ err' = Append(err, "usage")
                   /\ pc' = "done"
                   /\ status' = 1
                   /\ UNCHANGED <<opt_type, n>>
       ELSE IF Len(argv) # 1
            THEN /\ err' = Append(err, "usage")
                 /\ pc' = "done"
                 /\ status' = 1
                 /\ UNCHANGED <<opt_type, n>>
            ELSE /\ n' = Atoi(argv[1])
                 /\ pc' = IF prog \in CheckedPrograms THEN "check" ELSE "allocA"
                 /\ UNCHANGED <<opt_type, err, status>>
    /\ UNCHANGED <<prog, argv, mem, A, b, c, i, j, k, sum, lanes, mainK, remK,
                   iters, written, reads, events, out, ub, arith, ran>>

\* if (n <= 0) of the proj1 programs.
CheckDimension ==
    /\ pc = "check"
    /\ IF n <= 0
       THEN /\ err' = Append(err, "Matrix size must be a positive integer.")
            /\ pc' = "done"
            /\ status' = 1
       ELSE /\ pc' = "allocA"
            /\ UNCHANGED <<err, status>>
    /\ UNCHANGED <<prog, argv, n, opt_type, mem, A, b, c, i, j, k, sum, lanes,
                   mainK, remK, iters, written, reads, events, out, ub, arith, ran>>

\* -------------------------------------------------------------- allocation
\* Element counts the programs ask for: A is n x n, b and c are n x 1.
Rows(name) == n
Cols(name) == IF name = "A" THEN n ELSE 1
Count(name) ==
    IF prog \in CreateMatrixPrograms \/ name = "A"
    THEN MulWrap32(Rows(name), Cols(name))
    ELSE n

AfterAlloc(name) ==
    CASE name = "A" -> "allocB"
      [] name = "B" -> "allocC"
      [] OTHER -> IF prog \in CreateMatrixPrograms THEN "initA" ELSE "gen_row"

Fresh(name, cnt, v) ==
    /\ A' = IF name = "A" THEN [x \in 0..(cnt - 1) |-> v] ELSE A
    /\ b' = IF name = "B" THEN [x \in 0..(cnt - 1) |-> v] ELSE b
    /\ c' = IF name = "C" THEN [x \in 0..(cnt - 1) |-> v] ELSE c

\* CreateMatrix: malloc / new(nothrow); a null result is reported on the
\* error stream and returned to the caller.
CreateMatrix(name) ==
    /\ prog \in CreateMatrixPrograms
    /\ LET cnt == Count(name)
       IN  \/ /\ cnt >= 0
              /\ mem' = [mem EXCEPT ![name] = "ok"]
              /\ Fresh(name, cnt,
                       IF name = "C" THEN <<Garbage>> ELSE Indeterminate)
              /\ err' = err
           \/ /\ mem' = [mem EXCEPT ![name] = "null"]
              /\ err' = Append(err, "Matrix allocation failed in file, line")
              /\ UNCHANGED <<A, b, c>>
    /\ pc' = AfterAlloc(name)
    /\ UNCHANGED <<status, out>>

\* std::vector<T> v(count): value-initialised elements; a count that does
\* not fit or cannot be served throws, and nothing catches it.
VectorCtor(name) ==
    /\ prog \notin CreateMatrixPrograms
    /\ LET cnt == Count(name)
       IN  \/ /\ cnt >= 0
              /\ mem' = [mem EXCEPT ![name] = "ok"]
              /\ Fresh(name, cnt, IF name = "C" THEN <<>> ELSE Zero)
              /\ pc' = AfterAlloc(name)
              /\ UNCHANGED <<err, status>>
           \/ /\ cnt # 0
              /\ err' = Append(err, "terminate called after throwing")
              /\ pc' = "done"
              /\ status' = 134
              /\ UNCHANGED <<mem, A, b, c>>
    /\ out' = out

Allocate ==
    /\ \E name \in {"A", "B", "C"} :
          /\ pc = "alloc" \o name
          /\ (CreateMatrix(name) \/ VectorCtor(name))
    /\ UNCHANGED <<prog, argv, n, opt_type, i, j, k, sum, lanes, mainK, remK,
                   iters, written, reads, events, ub, arith, ran>>

\* --------------------------------------------------------------- generator
\* Outer generator loop of the std::vector programs: b[i] = ...
GenRow ==
    /\ pc = "gen_row"
    /\ IF i < n
       THEN LET bad == Bad({<<"B", i>>})
            IN  \/ Crash(bad)
                \/ /\ Goes(bad, "gen_col")
                   /\ b' = Store(b, "B", i, GenB(prog, i))
                   /\ j' = 0
                   /\ events' = Log("gen")
                   /\ i' = i
       ELSE /\ pc' = "time1"
            /\ UNCHANGED <<b, i, j, events, status, ub>>
    /\ UNCHANGED <<prog, argv, n, opt_type, mem, A, c, k, sum, lanes, mainK,
                   remK, iters, written, reads, out, err, arith, ran>>

\* Inner generator loop of the std::vector programs: A[i * n + j] = ...
GenCol ==
    /\ pc = "gen_col"
    /\ IF j < n
       THEN LET idx == FlatIndex(i, n, j)
                bad == Bad({<<"A", idx>>})
            IN  \/ Crash(bad)
                \/ /\ Goes(bad, "gen_col")
                   /\ A' = Store(A, "A", idx, GenA(i, j))
                   /\ j' = j + 1
                   /\ events' = Log("gen")
                   /\ i' = i
       ELSE /\ i' = i + 1
            /\ pc' = "gen_row"
            /\ UNCHANGED <<A, j, events, status, ub>>
    /\ UNCHANGED <<prog, argv, n, opt_type, mem, b, c, k, sum, lanes, mainK,
                   remK, iters, written, reads, out, err, arith, ran>>

\* InitMatrix(M, Rows, Cols): M[i*Cols+j] = 1/(i+j+2); one step per loop
\* test.  main calls it for A (N x M) and then for B (M x 1).
InitMatrix ==
    /\ \E name \in {"A", "B"} :
          /\ pc = "init" \o name
          /\ IF i < Rows(name)
             THEN IF j < Cols(name)
                  THEN LET idx == FlatIndex(i, Cols(name), j)
                           bad == Bad({<<name, idx>>})
                       IN  \/ Crash(bad)
                           \/ /\ Goes(bad, pc)
                              /\ A' = IF name = "A"
                                      THEN Store(A, "A", idx, GenA(i, j)) ELSE A
                              /\ b' = IF name = "B"
                                      THEN Store(b, "B", idx, GenA(i, j)) ELSE b
                              /\ j' = j + 1
                              /\ i' = i
                              /\ events' = Log("gen")
                  ELSE /\ i' = i + 1
                       /\ j' = 0
                       /\ UNCHANGED <<pc, A, b, events, status, ub>>
             ELSE /\ i' = 0
                  /\ j' = 0
                  /\ pc' = IF name = "A" THEN "initB" ELSE "clearC"
                  /\ UNCHANGED <<A, b, events, status, ub>>
    /\ UNCHANGED <<prog, argv, n, opt_type, mem, c, k, sum, lanes, mainK, remK,
                   iters, written, reads, out, err, arith, ran>>

\* Elements memset(C, 0, cnt * sizeof(C[0])) touches; a negative cnt
\* converts to a size beyond every buffer.
MemsetTouched(cnt) ==
    IF cnt >= 0 THEN 0..(cnt - 1) ELSE 0..Cardinality(DOMAIN c)

MemsetResult(cnt) ==
    [x \in DOMAIN c |-> IF x \in MemsetTouched(cnt) THEN <<>> ELSE c[x]]

\* memset(C, 0, N*P*sizeof(C[0])) in main of the CreateMatrix programs.
ClearC ==
    /\ pc = "clearC"
    /\ LET cnt == MulWrap32(n, 1)
           bad == Bad({<<"C", x>> : x \in MemsetTouched(cnt)})
       IN  \/ Crash(bad)
           \/ /\ Goes(bad, "time1")
              /\ c' = MemsetResult(cnt)
              /\ events' = Log("clear")
              /\ UNCHANGED <<prog, argv, n, opt_type, mem, A, b, i, j, k, sum,
                             lanes, mainK, remK, iters, written, reads, out,
                             err, arith, ran>>

\* ------------------------------------------------------------------- timer
\* A start timestamp that is not taken before the kernel is called.
Time1Late ==
    /\ pc = "time1"
    /\ pc' = "call"
    /\ UNCHANGED <<prog, argv, n, opt_type, mem, A, b, c, i, j, k, sum, lanes,
                   mainK, remK, iters, written, reads, events, out, err,
                   status, ub, arith, ran>>

\* time1 = microtime() / start = high_resolution_clock::now()
Time1 ==
    /\ pc = "time1"
    /\ events' = Append(events, "t1")
    /\ pc' = "call"
    /\ UNCHANGED <<prog, argv, n, opt_type, mem, A, b, c, i, j, k, sum, lanes,
                   mainK, remK, iters, written, reads, out, err, status, ub,
                   arith, ran>>

\* time2 = microtime() / end = high_resolution_clock::now()
Time2 ==
    /\ pc = "returned"
    /\ events' = Append(events, "t2")
    /\ pc' = "report"
    /\ UNCHANGED <<prog, argv, n, opt_type, mem, A, b, c, i, j, k, sum, lanes,
                   mainK, remK, iters, written, reads, out, err, status, ub,
                   arith, ran>>

\* ----------------------------------------------------------------- kernels
Kind == KernelKind(prog, opt_type)

\* First position of a kernel.
Entry(kind) ==
    CASE kind = "baseline" -> "bl_row"
      [] kind = "interchange" -> "ic_zero"
      [] kind = "unroll" -> "ur_row"
      [] OTHER -> "vc_row"

\* The call of the kernel; in hw1.cpp the if/else chain on opt_type, whose
\* last branch reports an unknown optimization type and returns 1.
KernelCall ==
    /\ pc = "call"
    /\ IF Kind = "none"
       THEN /\ err' = err \o <<"Error: Unknown optimization type", "usage">>
            /\ pc' = "done"
            /\ status' = 1
            /\ UNCHANGED <<events, i, k, ran>>
       ELSE /\ events' = Append(events, "call")
            /\ ran' = ran \cup {Kind}
            /\ pc' = Entry(Kind)
            /\ i' = 0
            /\ k' = 0
            /\ UNCHANGED <<err, status>>
    /\ UNCHANGED <<prog, argv, n, opt_type, mem, A, b, c, j, sum, lanes, mainK,
                   remK, iters, written, reads, out, ub, arith>>

\* An index of c the kernel has really stored to.
WrittenAt(idx) == IF Valid(<<"C", idx>>) THEN {idx} ELSE {}

\* The kernel returns to main.
Return ==
    /\ pc' = "returned"
    /\ events' = Append(events, "ret")

\* for (i...) { c[i] = 0.0; ... } of Mv_mult.
BaselineRow ==
    /\ pc = "bl_row"
    /\ IF i < n
       THEN LET bad == Bad({<<"C", i>>})
            IN  \/ Crash(bad)
                \/ /\ Goes(bad, "bl_col")
                   /\ c' = Store(c, "C", i, <<>>)
                   /\ written' = written \cup WrittenAt(i)
                   /\ k' = 0
                   /\ events' = events
       ELSE /\ Return
            /\ UNCHANGED <<c, written, k, status, ub>>
    /\ UNCHANGED <<prog, argv, n, opt_type, mem, A, b, i, j, sum, lanes, mainK,
                   remK, iters, reads, out, err, arith, ran>>

\* for (k...) c[i] += A[i * n + k] * b[k]; of Mv_mult.
BaselineCol ==
    /\ pc = "bl_col"
    /\ IF k < n
       THEN LET idx == FlatIndex(i, n, k)
                bad == Bad({<<"A", idx>>, <<"B", k>>, <<"C", i>>})
            IN  \/ Crash(bad)
                \/ /\ Goes(bad, "bl_col")
                   /\ c' = Store(c, "C", i, Append(Load("C", i), <<idx, k>>))
                   /\ written' = written \cup WrittenAt(i)
                   /\ k' = k + 1
                   /\ i' = i
       ELSE /\ i' = i + 1
            /\ pc' = "bl_row"
            /\ UNCHANGED <<c, written, k, status, ub>>
    /\ UNCHANGED <<prog, argv, n, opt_type, mem, A, b, j, sum, lanes, mainK,
                   remK, iters, reads, events, out, err, arith, ran>>

\* Zeroing of c by the interchanged kernels: std::fill over all of C
\* (hw1.cpp), memset of ARows elements (MatVecMult), or a loop over
\* i < n (interchange.cpp), here one element per step.
InterchangeZero ==
    /\ pc = "ic_zero"
    /\ CASE prog = "hw1" ->
              /\ c' = [x \in DOMAIN c |-> <<>>]
              /\ written' = written \cup DOMAIN c
              /\ pc' = "ic_outer"
              /\ UNCHANGED <<i, status, ub>>
         [] prog \in CreateMatrixPrograms ->
              LET bad == Bad({<<"C", x>> : x \in MemsetTouched(n)})
              IN  \/ Crash(bad)
                  \/ /\ Goes(bad, "ic_outer")
                     /\ c' = MemsetResult(n)
                     /\ written' = written \cup (MemsetTouched(n) \cap DOMAIN c)
                     /\ i' = i
         [] OTHER ->
              IF i < n
              THEN LET bad == Bad({<<"C", i>>})
                   IN  \/ Crash(bad)
                       \/ /\ Goes(bad, "ic_zero")
                          /\ c' = Store(c, "C", i, <<>>)
                          /\ written' = written \cup WrittenAt(i)
                          /\ i' = i + 1
              ELSE /\ pc' = "ic_outer"
                   /\ UNCHANGED <<c, written, i, status, ub>>
    /\ UNCHANGED <<prog, argv, n, opt_type, mem, A, b, j, k, sum, lanes, mainK,
                   remK, iters, reads, events, out, err, arith, ran>>

\* for (k = 0; k < n; ++k) of the interchanged kernels.
InterchangeOuter ==
    /\ pc = "ic_outer"
    /\ IF k < n
       THEN /\ i' = 0
            /\ pc' = "ic_inner"
            /\ events' = events
       ELSE /\ Return
            /\ i' = i
    /\ UNCHANGED <<prog, argv, n, opt_type, mem, A, b, c, j, k, sum, lanes,
                   mainK, remK, iters, written, reads, out, err, status, ub,
                   arith, ran>>

\* for (i = 0; i < n; ++i) c[i] += A[i * n + k] * b[k];
InterchangeInner ==
    /\ pc = "ic_inner"
    /\ IF i < n
       THEN LET idx == FlatIndex(i, n, k)
                bad == Bad({<<"A", idx>>, <<"B", k>>, <<"C", i>>})
            IN  \/ Crash(bad)
                \/ /\ Goes(bad, "ic_inner")
                   /\ c' = Store(c, "C", i, Append(Load("C", i), <<idx, k>>))
                   /\ written' = written \cup WrittenAt(i)
                   /\ i' = i + 1
                   /\ k' = k
       ELSE /\ k' = k + 1
            /\ pc' = "ic_outer"
            /\ UNCHANGED <<c, written, i, status, ub>>
    /\ UNCHANGED <<prog, argv, n, opt_type, mem, A, b, j, sum, lanes, mainK,
                   remK, iters, reads, events, out, err, arith, ran>>

\* A main loop that stops one block early: k < n - W.
MainCondStrict(kk, nn, W) == kk < nn - W

\* Condition of the unrolled / vectorized main loop: k <= n - W.
MainCond(kk, nn, W) == kk <= nn - W

\* A block whose last product repeats the one before it (offset W-2 twice).
BlockTermsRepeated(ii, nn, kk, W) ==
    [d \in 1..W |->
        LET e == IF d = W /\ W > 1 THEN W - 2 ELSE d - 1
        IN  <<AddWrap32(FlatIndex(ii, nn, kk), e), kk + e>>]

\* The W products one main loop iteration adds for row ii from column kk:
\* A[ii*nn + kk + d] * b[kk + d], d = 0..W-1, in that order.
BlockTerms(ii, nn, kk, W) ==
    [d \in 1..W |-> <<AddWrap32(FlatIndex(ii, nn, kk), d - 1), kk + d - 1>>]

BlockAccesses(ii, nn, kk, W) ==
    {<<"A", BlockTerms(ii, nn, kk, W)[d][1]>> : d \in 1..W}
        \cup {<<"B", BlockTerms(ii, nn, kk, W)[d][2]>> : d \in 1..W}

\* for (i...) { float sum = 0; int k = 0; ... } of Mv_mult_unrolled.
UnrollRow ==
    /\ pc = "ur_row"
    /\ IF i < n
       THEN /\ sum' = <<>>
            /\ k' = 0
            /\ mainK' = {}
            /\ remK' = {}
            /\ iters' = <<0, 0>>
            /\ pc' = "ur_main"
            /\ events' = events
       ELSE /\ Return
            /\ UNCHANGED <<sum, k, mainK, remK, iters>>
    /\ UNCHANGED <<prog, argv, n, opt_type, mem, A, b, c, i, j, lanes, written,
                   reads, out, err, status, ub, arith, ran>>

\* for (; k <= n - W; k += W) sum += ... W products ...
UnrollMain ==
    /\ pc = "ur_main"
    /\ LET W == UnrollWidth(prog)
       IN  IF MainCond(k, n, W)
           THEN LET bad == Bad(BlockAccesses(i, n, k, W))
                IN  \/ Crash(bad)
                    \/ /\ Goes(bad, "ur_main")
                       /\ sum' = sum \o BlockTerms(i, n, k, W)
                       /\ k' = k + W
                       /\ mainK' = mainK \cup (k..(k + W - 1))
                       /\ iters' = <<iters[1] + 1, iters[2]>>
           ELSE /\ pc' = "rem"
                /\ UNCHANGED <<sum, k, mainK, iters, status, ub>>
    /\ UNCHANGED <<prog, argv, n, opt_type, mem, A, b, c, i, j, lanes, remK,
                   written, reads, events, out, err, arith, ran>>

\* for (i...) { c_vec = setzero(); int k = 0; ... } of Mv_mult_avx2 and
\* Mv_mult_optimized.
VectorRow ==
    /\ pc = "vc_row"
    /\ IF i < n
       THEN /\ lanes' = [l \in 1..LaneWidth(prog) |-> <<>>]
            /\ k' = 0
            /\ mainK' = {}
            /\ remK' = {}
            /\ iters' = <<0, 0>>
            /\ pc' = "vc_main"
            /\ events' = events
       ELSE /\ Return
            /\ UNCHANGED <<lanes, k, mainK, remK, iters>>
    /\ UNCHANGED <<prog, argv, n, opt_type, mem, A, b, c, i, j, sum, written,
                   reads, out, err, status, ub, arith, ran>>

\* c_sum_array[0] + c_sum_array[1] + ... : the lanes added left to right.
RECURSIVE HorizontalSum(_, _)
HorizontalSum(v, L) ==
    IF L = 0 THEN <<>> ELSE HorizontalSum(v, L - 1) \o v[L]

\* for (; k <= n - L; k += L) { loadu A, loadu b, fmadd } and, when the loop
\* ends, the store of the register and its horizontal sum.
VectorMain ==
    /\ pc = "vc_main"
    /\ LET L == LaneWidth(prog)
       IN  IF MainCond(k, n, L)
           THEN LET bad == Bad(BlockAccesses(i, n, k, L))
                IN  \/ Crash(bad)
                    \/ /\ Goes(bad, "vc_main")
                       /\ lanes' = [l \in 1..L |->
                                      Append(lanes[l], BlockTerms(i, n, k, L)[l])]
                       /\ k' = k + L
                       /\ mainK' = mainK \cup (k..(k + L - 1))
                       /\ iters' = <<iters[1] + 1, iters[2]>>
                       /\ sum' = sum
           ELSE /\ sum' = HorizontalSum(lanes, L)
                /\ pc' = "rem"
                /\ UNCHANGED <<lanes, k, mainK, iters, status, ub>>
    /\ UNCHANGED <<prog, argv, n, opt_type, mem, A, b, c, i, j, remK, written,
                   reads, events, out, err, arith, ran>>

\* for (; k < n; ++k) sum += A[i * n + k] * b[k];  then  c[i] = sum;
Remainder ==
    /\ pc = "rem"
    /\ IF k < n
       THEN LET idx == FlatIndex(i, n, k)
                bad == Bad({<<"A", idx>>, <<"B", k>>})
            IN  \/ Crash(bad)
                \/ /\ Goes(bad, "rem")
                   /\ sum' = Append(sum, <<idx, k>>)
                   /\ k' = k + 1
                   /\ remK' = remK \cup {k}
                   /\ iters' = <<iters[1], iters[2] + 1>>
                   /\ UNCHANGED <<c, written, i>>
       ELSE LET bad == Bad({<<"C", i>>})
            IN  \/ Crash(bad)
                \/ /\ Goes(bad, Entry(Kind))
                   /\ c' = Store(c, "C", i, sum)
                   /\ written' = written \cup WrittenAt(i)
                   /\ i' = i + 1
                   /\ UNCHANGED <<sum, k, remK, iters>>
    /\ UNCHANGED <<prog, argv, n, opt_type, mem, A, b, j, lanes, mainK, reads,
                   events, out, err, arith, ran>>

\* ------------------------------------------------------------------ report
\* The first output statement: time and, in the hw1 programs, performance.
ReportTiming ==
    /\ pc = "report"
    /\ events' = Append(events, "report")
    /\ IF prog \in SampleReportPrograms
       THEN /\ out' = out \o << <<"Time us", <<>> >>,
                                <<"Timer Resolution us", <<>> >>,
                                <<"Performance Gflop/s", <<>> >> >>
            /\ pc' = "sample"
       ELSE /\ out' = out \o << <<"n", <<>> >>,
                                <<"Execution time seconds", <<>> >> >>
            /\ pc' = "checksum"
    /\ UNCHANGED <<prog, argv, n, opt_type, mem, A, b, c, i, j, k, sum, lanes,
                   mainK, remK, iters, written, reads, err, status, ub, arith, ran>>

\* cout << "C[N/2] = " << C[n/2]; hw1.cpp then returns 0, the CreateMatrix
\* programs go on to free their buffers.
ReportSample ==
    /\ pc = "sample"
    /\ LET idx == CDiv(n, 2)
           bad == Bad({<<"C", idx>>})
       IN  \/ Crash(bad)
           \/ /\ out' = Append(out, <<"C[N/2]", Load("C", idx)>>)
              /\ reads' = reads \cup {idx}
              /\ ub' = ub \cup Kinds(bad)
              /\ IF prog \in CreateMatrixPrograms
                 THEN pc' = "free" /\ status' = status
                 ELSE pc' = "done" /\ status' = 0
              /\ UNCHANGED <<prog, argv, n, opt_type, mem, A, b, c, i, j, k,
                             sum, lanes, mainK, remK, iters, written, events,
                             err, arith, ran>>

\* sum_c += c[i] for i < m, in order.
RECURSIVE SumC(_)
SumC(m) == IF m <= 0 THEN <<>> ELSE SumC(m - 1) \o Load("C", m - 1)

\* for (i < n) sum_c += c[i]; cout << "Checksum ..." << sum_c; return 0;
ReportChecksum ==
    /\ pc = "checksum"
    /\ LET bad == Bad({<<"C", x>> : x \in 0..(n - 1)})
       IN  \/ Crash(bad)
           \/ /\ out' = Append(out, <<"Checksum", SumC(n)>>)
              /\ reads' = reads \cup (0..(n - 1))
              /\ ub' = ub \cup Kinds(bad)
              /\ pc' = "done"
              /\ status' = 0
              /\ UNCHANGED <<prog, argv, n, opt_type, mem, A, b, c, i, j, k,
                             sum, lanes, mainK, remK, iters, written, events,
                             err, arith, ran>>

\* FreeMatrix(A); FreeMatrix(B); FreeMatrix(C); return 0;
FreeBuffers ==
    /\ pc = "free"
    /\ mem' = [x \in {"A", "B", "C"} |-> "none"]
    /\ A' = <<>> /\ b' = <<>> /\ c' = <<>>
    /\ pc' = "done"
    /\ status' = 0
    /\ UNCHANGED <<prog, argv, n, opt_type, i, j, k, sum, lanes, mainK, remK,
                   iters, written, reads, events, out, err, ub, arith, ran>>

\* ----------------------------------------------------------- specification
KernelNext ==
    \/ KernelCall
    \/ BaselineRow \/ BaselineCol
    \/ InterchangeZero \/ InterchangeOuter \/ InterchangeInner
    \/ UnrollRow \/ UnrollMain
    \/ VectorRow \/ VectorMain
    \/ Remainder

Next ==
    \/ ParseArgs \/ CheckDimension \/ Allocate
    \/ GenRow \/ GenCol \/ InitMatrix \/ ClearC
    \/ Time1 \/ Time2
    \/ ReportTiming \/ ReportSample \/ ReportChecksum \/ FreeBuffers
    \/ KernelNext

Spec == Init /\ [][Next]_vars

\* ------------------------------------------------- kernels as functions
\* Inputs of the kernel runs: three integer matrices and vectors, and a
\* result buffer that is either zero or holds earlier content.
Inputs == 1..3

InputA(f, x) ==
    CASE f = 1 -> <<1, 1>>
      [] f = 2 -> <<x + 1, 1>>
      [] OTHER -> <<((x * 7 + 3) % 5) - 2, 1>>

InputB(f, x) ==
    CASE f = 1 -> <<1, 1>>
      [] f = 2 -> <<x + 2, 1>>
      [] OTHER -> <<((x * 3 + 1) % 4) - 1, 1>>

InputC(f, x) == IF f = 1 THEN <<>> ELSE <<Garbage>>

\* A kernel is called on buffers of n*n, n and n elements.
InitKernel ==
    /\ prog \in Programs
    /\ opt_type \in (IF prog = "hw1" THEN DispatchedSelectors ELSE {<<>>})
    /\ argv = <<>>
    /\ n \in 0..MaxN
    /\ \E f \in Inputs :
          /\ A = [x \in 0..(n * n - 1) |-> InputA(f, x)]
          /\ b = [x \in 0..(n - 1) |-> InputB(f, x)]
          /\ c = [x \in 0..(n - 1) |-> InputC(f, x)]
    /\ mem = [x \in {"A", "B", "C"} |-> "ok"]
    /\ pc = "call"
    /\ i = 0 /\ j = 0 /\ k = 0
    /\ sum = <<>>
    /\ lanes = <<>>
    /\ mainK = {} /\ remK = {}
    /\ iters = <<0, 0>>
    /\ written = {} /\ reads = {}
    /\ events = <<>>
    /\ out = <<>> /\ err = <<>>
    /\ status = -1
    /\ ub = {}
    /\ arith = [op |-> "none", val |-> 0]
    /\ ran = {}

SpecK == InitKernel /\ [][KernelNext]_vars

\* --------------------------------------------------- int index arithmetic
\* Dimensions atoi can return, around the square root of 2^31.
IndexDims == {1, 2, 3, 17, 1000, 46340, 46341, 65535, 65536, 65537,
              1000000, IntMax}

\* Rows and columns tried for a dimension: the corners and the middle.
Corners(nn) == {x \in {0, 1, nn \div 2, nn - 1} : 0 <= x /\ x < nn}

InitIndex ==
    /\ prog \in {"Mv_c", "hw1", "proj1_Mv"}
    /\ argv = <<>>
    /\ opt_type = <<>>
    /\ n \in IndexDims
    /\ A = <<>> /\ b = <<>> /\ c = <<>>
    /\ mem = [x \in {"A", "B", "C"} |-> "none"]
    /\ pc = "size"
    /\ i = 0 /\ j = 0 /\ k = 0
    /\ sum = <<>>
    /\ lanes = <<>>
    /\ mainK = {} /\ remK = {}
    /\ iters = <<0, 0>>
    /\ written = {} /\ reads = {}
    /\ events = <<>>
    /\ out = <<>> /\ err = <<>>
    /\ status = -1
    /\ ub = {}
    /\ arith = [op |-> "none", val |-> 0]
    /\ ran = {}

\* Signed overflow is undefined: the build either wraps or traps.
Overflow(ovf, next) ==
    \/ /\ pc' = next
       /\ status' = status
       /\ ub' = ub \cup (IF ovf THEN {"overflow"} ELSE {})
    \/ /\ ovf
       /\ pc' = "done"
       /\ status' = 132
       /\ ub' = ub \cup {"overflow"}

\* The element count n * n of A, an int expression.
SizeOfA ==
    /\ pc = "size"
    /\ arith' = [op |-> "size", val |-> MulWrap32(n, n)]
    /\ Overflow(MulOverflows(n, n), "index")
    /\ UNCHANGED <<prog, argv, n, opt_type, mem, A, b, c, i, j, k, sum, lanes,
                   mainK, remK, iters, written, reads, events, out, err, ran>>

\* The flattened index i * n + k of one element access, an int expression.
IndexOfElement ==
    /\ pc = "index"
    /\ \E ii \in Corners(n), kk \in Corners(n) :
          /\ i' = ii
          /\ k' = kk
          /\ arith' = [op |-> "index", val |-> FlatIndex(ii, n, kk)]
          /\ Overflow(MulOverflows(ii, n)
                        \/ AddOverflows(MulWrap32(ii, n), kk), "indexed")
    /\ UNCHANGED <<prog, argv, n, opt_type, mem, A, b, c, j, sum, lanes,
                   mainK, remK, iters, written, reads, events, out, err, ran>>

IndexNext == SizeOfA \/ IndexOfElement

SpecIdx == InitIndex /\ [][IndexNext]_vars

\* ================================================================== claims
GarbageValue == <<7, 1>>

\* The exact value of one product of a sum.
TermValue(t) ==
    IF t[1] \in DOMAIN A /\ t[2] \in DOMAIN b THEN RatMul(A[t[1]], b[t[2]])
    ELSE GarbageValue

\* The exact value of a sum, added in the order of the sequence.
RECURSIVE Value(_)
Value(s) ==
    IF s = <<>> THEN Zero
    ELSE RatAdd(Value(SubSeq(s, 1, Len(s) - 1)), TermValue(s[Len(s)]))

\* The mathematical row product: sum over k < m of A[ii][k] * b[k].
RECURSIVE RowProduct(_, _)
RowProduct(ii, m) ==
    IF m = 0 THEN Zero
    ELSE RatAdd(RowProduct(ii, m - 1), RatMul(A[ii * n + m - 1], b[m - 1]))

RatEq(x, y) == x[1] * y[2] = y[1] * x[2]

Occurrences(s, t) == Cardinality({p \in DOMAIN s : s[p] = t})

ArgcValid == IF prog = "hw1" THEN Len(argv) \in {1, 2} ELSE Len(argv) = 1

DimArg == argv[Len(argv)]

OwnKernel(sel) ==
    CASE sel = SelBaseline -> "baseline"
      [] sel = SelAvx2 -> "vector"
      [] sel = SelUnroll -> "unroll"
      [] OTHER -> "interchange"

Position(e) == {p \in DOMAIN events : events[p] = e}

TimerEvents ==
    SelectSeq(events, LAMBDA e : e \in {"t1", "call", "ret", "t2", "report"})

\* C1 - Cross-variant agreement: when a kernel has returned, every c[i],
\* i in [0,n), is the sum of exactly the n products A[i*n+k]*b[k], k in
\* [0,n), each added once and nothing else (no earlier content of c), and
\* its exact value equals the row product the baseline computes.
C1_CrossVariantAgreement ==
    pc = "returned" =>
        \A ii \in 0..(n - 1) :
            /\ Len(c[ii]) = n
            /\ \A kk \in 0..(n - 1) : Occurrences(c[ii], <<ii * n + kk, kk>>) = 1
            /\ RatEq(Value(c[ii]), RowProduct(ii, n))

\* The vectorized hw1.cpp kernel has returned for n = 17: two full blocks
\* of 8 lanes and one remainder column per row, over a dirty result buffer.
C1_Witness ==
    /\ pc = "returned"
    /\ prog = "hw1"
    /\ opt_type = SelAvx2
    /\ n = 17
    /\ Len(c[16]) = 17
    /\ A[1] = <<2, 1>>

\* C2 - Remainder correctness: in the unrolled and vectorized kernels, for
\* every n >= 0 and every finished row, the main loop ran exactly n div W
\* times over the columns [0, W*(n div W)) and the remainder loop exactly
\* n mod W times over the rest; the ranges are disjoint and cover [0,n).
C2_RemainderCorrectness ==
    LET W == Width(prog, Kind)
        q == n \div W
    IN  /\ (Kind \in {"unroll", "vector"} /\ pc = "rem") => iters[1] = q
        /\ (Kind \in {"unroll", "vector"}
              /\ pc \in {"ur_row", "vc_row", "returned"} /\ i > 0) =>
                /\ iters = <<q, n % W>>
                /\ mainK = 0..(W * q - 1)
                /\ remK = (W * q)..(n - 1)
                /\ mainK \cap remK = {}
                /\ mainK \cup remK = 0..(n - 1)
                /\ (n < W => iters[1] = 0)
                /\ (n % W = 0 => iters[2] = 0)

\* The 8-way unrolled kernel has returned for n = 16: two main iterations
\* and an empty remainder loop.
C2_Witness ==
    /\ pc = "returned"
    /\ prog = "unroll"
    /\ n = 16
    /\ iters = <<2, 0>>
    /\ i = 16

\* C3 - No out-of-bounds access: for every n >= 0 that reaches the
\* computation, no access of the generator, the kernel or the report leaves
\* its buffer, and at n = 0 the reported checksum or sample is zero.
C3_NoOutOfBounds ==
    (pc # "start" /\ n >= 0) =>
        /\ "oob" \notin ub
        /\ (n = 0 /\ status = 0) => \A x \in DOMAIN out : out[x][2] = <<>>

\* C4 - Invalid dimension rejection: when the dimension argument parses to
\* n <= 0, no buffer is ever allocated, no generator, timer or kernel step
\* runs, nothing is printed on standard output, and the run ends with exit
\* status 1 and a message on the error stream.
C4_InvalidDimensionRejected ==
    (ArgcValid /\ Atoi(DimArg) <= 0) =>
        /\ \A x \in {"A", "B", "C"} : mem[x] = "none"
        /\ events = <<>>
        /\ out = <<>>
        /\ pc = "done" => (status = 1 /\ err # <<>>)

\* C5 - Selector dispatch of hw1.cpp: with a positive n, every documented
\* selector runs its own kernel and exits 0, an omitted selector runs the
\* vectorized kernel, and any other selector ends with the usage message,
\* exit status 1, nothing on standard output and no kernel run.
C5_SelectorDispatch ==
    (prog = "hw1" /\ pc = "done" /\ status \in {0, 1}
        /\ Len(argv) \in {1, 2} /\ n > 0) =>
        IF Len(argv) = 1 THEN status = 0 /\ ran = {"vector"}
        ELSE IF argv[1] \in DocumentedSelectors
             THEN status = 0 /\ ran = {OwnKernel(argv[1])}
             ELSE /\ status = 1
                  /\ out = <<>>
                  /\ ran = {}
                  /\ "usage" \in Range(err)

\* C6 - Success report completeness: every run with a valid argument list
\* and positive n that returns from main exits 0 having printed the elapsed
\* time, the throughput in Gflop/s, and a checksum or sample of c.
C6_SuccessReportComplete ==
    (pc = "done" /\ status \in {0, 1} /\ ArgcValid /\ Atoi(DimArg) > 0
        /\ (prog = "hw1" /\ Len(argv) = 2 => argv[1] \in DocumentedSelectors)) =>
        /\ status = 0
        /\ Labels(out) \cap {"Time us", "Execution time seconds"} # {}
        /\ "Performance Gflop/s" \in Labels(out)
        /\ Labels(out) \cap {"C[N/2]", "Checksum"} # {}

\* C7 - Allocation failure is fatal: once CreateMatrix has reported a
\* failed allocation, nothing touches the null buffer, no time, throughput
\* or sample is printed, and the run does not exit with status 0.
C7_AllocationFailureFatal ==
    ("Matrix allocation failed in file, line" \in Range(err)) =>
        /\ "null" \notin ub
        /\ out = <<>>
        /\ pc = "done" => status # 0

\* C8 - Timed region ordering: every generator write precedes the start
\* timestamp; the kernel is called only after the start timestamp, returns
\* before the end timestamp, and is called once; nothing is reported unless
\* both timestamps were taken around a completed kernel call; a run that
\* exits 0 went through start timestamp, call, return, end timestamp,
\* report, in this order.
C8_TimedRegionOrdering ==
    /\ \A p \in Position("gen"), q \in Position("t1") : p < q
    /\ TimerEvents \in {<<>>, <<"t1">>, <<"t1", "call">>,
                        <<"t1", "call", "ret">>,
                        <<"t1", "call", "ret", "t2">>,
                        <<"t1", "call", "ret", "t2", "report">>}
    /\ out # <<>> => TimerEvents = <<"t1", "call", "ret", "t2", "report">>
    /\ status = 0 => TimerEvents = <<"t1", "call", "ret", "t2", "report">>

\* hw1.cpp has exited 0 for n = 4 after generating, timing and reporting.
C8_Witness ==
    /\ prog = "hw1"
    /\ n = 4
    /\ status = 0
    /\ events = <<"gen", "t1", "call", "ret", "t2", "report">>
    /\ Len(out) = 4

\* C9 - Fresh result: what the report reads of c was written by the kernel
\* during the same run, and after the kernel has returned no element of c
\* holds anything that was in memory before the call.
C9_FreshResult ==
    /\ reads \subseteq written
    /\ pc \in {"returned", "report", "sample", "checksum"} =>
          \A x \in DOMAIN c : Garbage \notin Range(c[x])
    /\ \A x \in DOMAIN out : Garbage \notin Range(out[x][2])

\* C10 - Index arithmetic does not wrap: for every positive n, the int
\* expressions n * n and i * n + k (0 <= i, k < n) have their mathematical
\* values: the size divides by n into exactly n, the index into i rest k.
C10_IndexArithmeticExact ==
    /\ arith.op = "size" => (arith.val \div n = n /\ arith.val % n = 0)
    /\ arith.op = "index" => (arith.val \div n = i /\ arith.val % n = k)

====
